---- MODULE Spec2Model ----
(***************************************************************************)
(* State-machine model of src/app/page.tsx: the SignalRClient page.        *)
(*                                                                         *)
(* The React state of the component (useState / useRef cells), the         *)
(* HubConnection objects it builds, and the handlers it registers are      *)
(* modelled one action per handler.  The SignalR transport itself is the   *)
(* environment: it resolves or rejects start(), completes stop(), and      *)
(* fires the onclose / onreconnecting / onreconnected / "ReceiveMachine-   *)
(* Update" callbacks the page registered.  JavaScript runs each handler    *)
(* to completion, and a promise continuation runs in the same task as the  *)
(* transport event that settles the promise, so an action is the           *)
(* transport event together with the continuation it resumes.              *)
(***************************************************************************)
EXTENDS Integers, Sequences, FiniteSets, TLC

\* ---- bounds -------------------------------------------------------------
MaxConns     == 2    \* HubConnections built in one behaviour
MaxEvents    == 2    \* inbound events delivered in one behaviour of Spec/SpecAPI
MaxEventsLog == 52   \* inbound events delivered in one behaviour of SpecLog
MaxEventsStatus == 1 \* inbound events delivered in one behaviour of SpecStatus
MaxIdLen     == 2    \* characters typed into the User ID input
MaxClock     == 1    \* distinct readings of new Date()

\* ---- program constants --------------------------------------------------
KeepPrev == 49       \* prevLogs.slice(0, 49)
NoConn   == 0        \* null (useState / useRef initial value)

ConnIds    == 1..MaxConns
Chars      == {" ", "u"}
UserIds    == UNION {[1..n -> Chars] : n \in 0..MaxIdLen}
ServerUrls == {"machineHub", "otherHub"}
LogIds     == {"m1"}
Times      == 1..MaxClock

\* HubConnectionState of the transport, plus "Unbuilt" for an id not yet
\* handed out by HubConnectionBuilder.build().
HubStates == {"Unbuilt", "Connecting", "Connected", "Reconnecting",
              "Disconnecting", "Disconnected"}
\* started and not closed
LiveStates == {"Connecting", "Connected", "Reconnecting", "Disconnecting"}

VARIABLES
    connection,        \* useState<HubConnection | null>
    isConnected,       \* useState(false)
    userId,            \* useState("")
    serverUrl,         \* useState(url)
    logs,              \* useState<MachineLog[]>([])
    connectionStatus,  \* useState("disconnected")
    connectionRef,     \* useRef<HubConnection | null>(null).current
    mounted,           \* the component is mounted (effect cleanup not yet run)
    hub,               \* transport state of every HubConnection
    nconn,             \* number of HubConnections built so far
    stopWaiters,       \* connections whose stop() a disconnectFromHub awaits
    received,          \* number of "ReceiveMachineUpdate" deliveries so far
    console,           \* last console.log / console.error message
    alertMsg,          \* last alert() shown
    cancelled          \* history: connections whose start() was pending when
                       \* disconnectFromHub ran

vars == <<connection, isConnected, userId, serverUrl, logs, connectionStatus,
          connectionRef, mounted, hub, nconn, stopWaiters, received, console,
          alertMsg, cancelled>>

\* The cells the connection handlers write, as one record, so that handlers
\* that run one after the other in the same task can be composed.
View == [connection       |-> connection,
         isConnected      |-> isConnected,
         connectionStatus |-> connectionStatus,
         connectionRef    |-> connectionRef,
         console          |-> console]

Commit(v) ==
    /\ connection'       = v.connection
    /\ isConnected'      = v.isConnected
    /\ connectionStatus' = v.connectionStatus
    /\ connectionRef'    = v.connectionRef
    /\ console'          = v.console

Min(a, b) == IF a < b THEN a ELSE b

\* ---- pure helpers -------------------------------------------------------
IsSpace(ch) == ch = " "

\* String.prototype.trim(): drop leading and trailing white space.
RECURSIVE TrimLeft(_)
TrimLeft(s) ==
    IF s # <<>> /\ IsSpace(Head(s)) THEN TrimLeft(Tail(s)) ELSE s

RECURSIVE TrimRight(_)
TrimRight(s) ==
    IF s # <<>> /\ IsSpace(s[Len(s)])
    THEN TrimRight(SubSeq(s, 1, Len(s) - 1)) ELSE s

Trim(s) == TrimRight(TrimLeft(s))

\* A mutant of IsBlank: the test without trim().
IsBlank_NoTrim(s) == s = <<>>

\* !userId.trim()
IsBlank(s) == Trim(s) = <<>>

\* Array.prototype.slice(from, to) on a sequence (0-based, `to` exclusive).
Slice(s, from, to) == SubSeq(s, from + 1, Min(to, Len(s)))

\* ---- status strings and their presentation --------------------------------
\* A status is a string, modelled as the sequence of its characters.
UpperLetters == <<"A", "B", "C", "D", "E", "F", "G", "H", "I", "J", "K", "L", "M", "N", "O", "P", "Q", "R", "S", "T", "U", "V", "W", "X", "Y", "Z">>
LowerLetters == <<"a", "b", "c", "d", "e", "f", "g", "h", "i", "j", "k", "l", "m", "n", "o", "p", "q", "r", "s", "t", "u", "v", "w", "x", "y", "z">>

\* String.prototype.toLowerCase(), character by character.
ToLowerChar(ch) ==
    IF \E j \in 1..26 : UpperLetters[j] = ch
    THEN LowerLetters[CHOOSE j \in 1..26 : UpperLetters[j] = ch]
    ELSE ch

ToLowerCase(str) == [k \in 1..Len(str) |-> ToLowerChar(str[k])]

\* The case labels of the two switch statements.
W_completed == <<"c", "o", "m", "p", "l", "e", "t", "e", "d">>
W_success == <<"s", "u", "c", "c", "e", "s", "s">>
W_online == <<"o", "n", "l", "i", "n", "e">>
W_running == <<"r", "u", "n", "n", "i", "n", "g">>
W_active == <<"a", "c", "t", "i", "v", "e">>
W_error == <<"e", "r", "r", "o", "r">>
W_failed == <<"f", "a", "i", "l", "e", "d">>
W_offline == <<"o", "f", "f", "l", "i", "n", "e">>
W_emergency == <<"e", "m", "e", "r", "g", "e", "n", "c", "y">>
W_warning == <<"w", "a", "r", "n", "i", "n", "g">>
W_idle == <<"i", "d", "l", "e">>
W_processing == <<"p", "r", "o", "c", "e", "s", "s", "i", "n", "g">>
W_inproduction == <<"i", "n", "p", "r", "o", "d", "u", "c", "t", "i", "o", "n">>

\* Status strings the server sends (the keys of StatusSummary) that match no
\* case label.
W_machinealarm == <<"m", "a", "c", "h", "i", "n", "e", "a", "l", "a", "r", "m">>
W_other == <<"o", "t", "h", "e", "r">>

\* Statuses as the server spells them.
Online       == <<"O", "n", "l", "i", "n", "e">>
Emergency    == <<"E", "m", "e", "r", "g", "e", "n", "c", "y">>
InProduction == <<"I", "n", "P", "r", "o", "d", "u", "c", "t", "i", "o", "n">>
MachineAlarm == <<"M", "a", "c", "h", "i", "n", "e", "A", "l", "a", "r", "m">>

\* A mutant of getStatusIcon: the switch without toLowerCase().
getStatusIcon_CaseSensitive(status) ==
    IF status \in {W_completed, W_success, W_online, W_running, W_active}
    THEN "CheckCircle text-green-500"
    ELSE IF status \in {W_error, W_failed, W_offline, W_emergency}
    THEN "XCircle text-red-500"
    ELSE "AlertCircle text-yellow-500"

\* getStatusIcon: the icon element, named by its component and class.
getStatusIcon(status) ==
    LET lower == ToLowerCase(status) IN
    IF lower \in {W_completed, W_success, W_online, W_running, W_active}
    THEN "CheckCircle text-green-500"
    ELSE IF lower \in {W_error, W_failed, W_offline, W_emergency}
    THEN "XCircle text-red-500"
    ELSE IF lower \in {W_warning, W_idle}
    THEN "AlertCircle text-yellow-500"
    ELSE "AlertCircle text-yellow-500"

\* getStatusColor
getStatusColor(status) ==
    LET lower == ToLowerCase(status) IN
    IF lower \in {W_completed, W_success, W_online, W_running, W_active}
    THEN "bg-green-100 text-green-800"
    ELSE IF lower \in {W_error, W_failed, W_offline, W_emergency}
    THEN "bg-red-100 text-red-800"
    ELSE IF lower \in {W_processing, W_warning, W_inproduction}
    THEN "bg-blue-100 text-blue-800"
    ELSE IF lower = W_idle
    THEN "bg-yellow-100 text-yellow-800"
    ELSE "bg-gray-100 text-gray-800"

\* Inbound payloads.  `present` is "response is truthy", `hasData` is
\* "response.data is truthy"; data carries the server's fields.
Payloads == [present : BOOLEAN, hasData : BOOLEAN,
             data : [id : LogIds, status : {Online}, timestamp : {0}]]

\* A mutant of HasEnvelope: only the payload itself is tested.
HasEnvelope_PresentOnly(response) == response.present

\* response && response.data
HasEnvelope(response) == response.present /\ response.hasData

\* { ...response.data, timestamp: new Date().toISOString() }, tagged with the
\* arrival number of the delivery (history field, not a field of the code).
MakeLog(response, t, n) ==
    [id        |-> response.data.id,
     status    |-> response.data.status,
     timestamp |-> t,
     arrival   |-> n]

\* Mutants of PrependLog: no truncation; append instead of prepend.
PrependLog_NoTrunc(log, prevLogs) == <<log>> \o prevLogs
PrependLog_Append(log, prevLogs) == Slice(prevLogs, 0, KeepPrev) \o <<log>>
PrependLog_Keep48(log, prevLogs) == <<log>> \o Slice(prevLogs, 0, KeepPrev - 1)

\* [log, ...prevLogs.slice(0, 49)]
PrependLog(log, prevLogs) == <<log>> \o Slice(prevLogs, 0, KeepPrev)

\* ---- handlers registered on a connection --------------------------------
\* A mutant of OnClose: the handler forgets setConnectionStatus.
OnClose_NoStatus(v) ==
    [v EXCEPT !.console = "ConnectionClosed", !.isConnected = FALSE]

\* newConnection.onclose(...)
OnClose(v) ==
    [v EXCEPT !.console = "ConnectionClosed",
              !.isConnected = FALSE,
              !.connectionStatus = "disconnected"]

\* A mutant of OnReconnecting: the handler reports the drop as a disconnect.
OnReconnecting_Disconnected(v) ==
    [v EXCEPT !.console = "Reconnecting",
              !.connectionStatus = "disconnected"]

\* newConnection.onreconnecting(...)
OnReconnecting(v) ==
    [v EXCEPT !.console = "Reconnecting",
              !.connectionStatus = "connecting"]

\* A mutant of OnReconnected: the handler sets the flag but not the status.
OnReconnected_OnlyFlag(v) ==
    [v EXCEPT !.console = "Reconnected", !.isConnected = TRUE]

\* newConnection.onreconnected(...)
OnReconnected(v) ==
    [v EXCEPT !.console = "Reconnected",
              !.isConnected = TRUE,
              !.connectionStatus = "connected"]

\* A mutant of StartContinuation: the continuation forgets the handle.
StartContinuation_NoRef(v, c) ==
    [v EXCEPT !.console = "Connected",
              !.connection = c,
              !.isConnected = TRUE,
              !.connectionStatus = "connected"]

\* connectToHub after `await newConnection.start()` resolved.
StartContinuation(v, c) ==
    [v EXCEPT !.console = "Connected",
              !.connection = c,
              !.connectionRef = c,
              !.isConnected = TRUE,
              !.connectionStatus = "connected"]

\* A mutant of StartCatch: the catch block only logs.
StartCatch_NoStatus(v) == [v EXCEPT !.console = "ErrorConnecting"]

\* connectToHub's catch block (the alert is set by the action).
StartCatch(v) ==
    [v EXCEPT !.console = "ErrorConnecting",
              !.connectionStatus = "disconnected"]

\* A mutant of DisconnectSettled: the cleanup sits in the try block, not in
\* finally, so it is skipped when stop() throws.
DisconnectSettled_TryOnly(v, ok) ==
    IF ok
    THEN [v EXCEPT !.console = "Disconnected",
                   !.connection = NoConn,
                   !.connectionRef = NoConn,
                   !.isConnected = FALSE,
                   !.connectionStatus = "disconnected"]
    ELSE [v EXCEPT !.console = "ErrorDisconnecting"]

\* disconnectFromHub after `await connectionRef.current.stop()` settled:
\* try / catch logging, then the finally block.
DisconnectSettled(v, ok) ==
    [v EXCEPT !.console = IF ok THEN "Disconnected" ELSE "ErrorDisconnecting",
              !.connection = NoConn,
              !.connectionRef = NoConn,
              !.isConnected = FALSE,
              !.connectionStatus = "disconnected"]

\* ---- initial state -------------------------------------------------------
Init ==
    /\ connection = NoConn
    /\ isConnected = FALSE
    /\ userId = <<>>
    /\ serverUrl = "machineHub"
    /\ logs = <<>>
    /\ connectionStatus = "disconnected"
    /\ connectionRef = NoConn
    /\ mounted = TRUE
    /\ hub = [c \in ConnIds |-> "Unbuilt"]
    /\ nconn = 0
    /\ stopWaiters = {}
    /\ received = 0
    /\ console = "none"
    /\ alertMsg = "none"
    /\ cancelled = {}

\* ---- what the rendered page lets the user do ----------------------------
\* A mutant of ConnectEnabled: the button is not disabled while connecting.
ConnectEnabled_NoDisable == ~isConnected

\* {!isConnected ? <Button onClick={connectToHub}
\*                  disabled={connectionStatus === "connecting"}> ...
ConnectEnabled == ~isConnected /\ connectionStatus # "connecting"

\* ... : <Button onClick={disconnectFromHub}>}
DisconnectShown == isConnected

\* {logs.length > 0 && <Button onClick={clearLogs}>}
ClearShown == Len(logs) > 0

\* <Input ... disabled={isConnected} />
InputsEnabled == ~isConnected

\* Connections whose start() has not settled yet.
Starting == {c \in ConnIds : hub[c] = "Connecting"}

\* ---- the component's functions ------------------------------------------
\* A mutant of connectToHub: a new connection attempt resets the log.
connectToHub_ResetLogs ==
    IF IsBlank(userId)
    THEN /\ alertMsg' = "InvalidUserId"
         /\ UNCHANGED <<connection, isConnected, userId, serverUrl, logs,
                        connectionStatus, connectionRef, mounted, hub, nconn,
                        stopWaiters, received, console, cancelled>>
    ELSE /\ nconn < MaxConns
         /\ connectionStatus' = "connecting"
         /\ nconn' = nconn + 1
         /\ hub' = [hub EXCEPT ![nconn + 1] = "Connecting"]
         /\ logs' = <<>>
         /\ UNCHANGED <<connection, isConnected, userId, serverUrl,
                        connectionRef, mounted, stopWaiters, received,
                        console, alertMsg, cancelled>>

\* connectToHub up to `await newConnection.start()`.
connectToHub ==
    IF IsBlank(userId)
    THEN /\ alertMsg' = "InvalidUserId"
         /\ UNCHANGED <<connection, isConnected, userId, serverUrl, logs,
                        connectionStatus, connectionRef, mounted, hub, nconn,
                        stopWaiters, received, console, cancelled>>
    ELSE /\ nconn < MaxConns
         /\ connectionStatus' = "connecting"
         /\ nconn' = nconn + 1
         /\ hub' = [hub EXCEPT ![nconn + 1] = "Connecting"]
         /\ UNCHANGED <<connection, isConnected, userId, serverUrl, logs,
                        connectionRef, mounted, stopWaiters, received,
                        console, alertMsg, cancelled>>

\* disconnectFromHub up to `await connectionRef.current.stop()`: the test of
\* the handle and the call of stop(). The await yields even when stop()
\* resolves at once (the handle refers to a connection that has already
\* closed), so the call returns with every field as it was and the rest of
\* the function runs later, in StopSettles or StopResolvesClosed.
disconnectFromHub ==
    /\ cancelled' = cancelled \cup Starting
    /\ IF connectionRef = NoConn
       THEN UNCHANGED <<hub, stopWaiters>>
       ELSE /\ hub' = IF hub[connectionRef] \in {"Connected", "Reconnecting"}
                      THEN [hub EXCEPT ![connectionRef] = "Disconnecting"]
                      ELSE hub
            /\ stopWaiters' = stopWaiters \cup {connectionRef}
    /\ UNCHANGED <<connection, isConnected, userId, serverUrl, logs,
                   connectionStatus, connectionRef, mounted, nconn, received,
                   console, alertMsg>>

\* A mutant of clearLogs: the newest record survives.
clearLogs_KeepNewest ==
    /\ logs' = Slice(logs, 0, 1)
    /\ UNCHANGED <<connection, isConnected, userId, serverUrl,
                   connectionStatus, connectionRef, mounted, hub, nconn,
                   stopWaiters, received, console, alertMsg, cancelled>>

\* clearLogs
clearLogs ==
    /\ logs' = <<>>
    /\ UNCHANGED <<connection, isConnected, userId, serverUrl,
                   connectionStatus, connectionRef, mounted, hub, nconn,
                   stopWaiters, received, console, alertMsg, cancelled>>

\* ---- user actions on the rendered page ----------------------------------
SetUserId(v) ==
    /\ mounted /\ InputsEnabled
    /\ userId' = v
    /\ UNCHANGED <<connection, isConnected, serverUrl, logs, connectionStatus,
                   connectionRef, mounted, hub, nconn, stopWaiters, received,
                   console, alertMsg, cancelled>>

SetServerUrl(v) ==
    /\ mounted /\ InputsEnabled
    /\ serverUrl' = v
    /\ UNCHANGED <<connection, isConnected, userId, logs, connectionStatus,
                   connectionRef, mounted, hub, nconn, stopWaiters, received,
                   console, alertMsg, cancelled>>

ConnectClick == mounted /\ ConnectEnabled /\ connectToHub

DisconnectClick == mounted /\ DisconnectShown /\ disconnectFromHub

ClearClick == mounted /\ ClearShown /\ clearLogs

\* The effect cleanup: if (connectionRef.current) connectionRef.current.stop()
\* (not awaited).
Unmount ==
    /\ mounted
    /\ mounted' = FALSE
    /\ hub' = IF connectionRef # NoConn
                 /\ hub[connectionRef] \in {"Connected", "Reconnecting"}
              THEN [hub EXCEPT ![connectionRef] = "Disconnecting"]
              ELSE hub
    /\ UNCHANGED <<connection, isConnected, userId, serverUrl, logs,
                   connectionStatus, connectionRef, nconn, stopWaiters,
                   received, console, alertMsg, cancelled>>

\* ---- the component's functions called directly --------------------------
connect == mounted /\ connectToHub

disconnect == mounted /\ disconnectFromHub

clear == mounted /\ clearLogs

\* ---- transport events ---------------------------------------------------
\* start() resolves: the connection is Connected and connectToHub resumes.
StartResolves(c) ==
    /\ hub[c] = "Connecting"
    /\ hub' = [hub EXCEPT ![c] = "Connected"]
    /\ Commit(StartContinuation(View, c))
    /\ UNCHANGED <<userId, serverUrl, logs, mounted, nconn, stopWaiters,
                   received, alertMsg, cancelled>>

\* start() rejects: the connection is closed (onclose is not fired for a
\* connection that never started) and connectToHub's catch block runs.
StartRejects(c) ==
    /\ hub[c] = "Connecting"
    /\ hub' = [hub EXCEPT ![c] = "Disconnected"]
    /\ Commit(StartCatch(View))
    /\ alertMsg' = "ConnectFailed"
    /\ UNCHANGED <<userId, serverUrl, logs, mounted, nconn, stopWaiters,
                   received, cancelled>>

\* The transport lost the connection and starts automatic reconnect.
TransportReconnecting(c) ==
    /\ hub[c] = "Connected"
    /\ hub' = [hub EXCEPT ![c] = "Reconnecting"]
    /\ Commit(OnReconnecting(View))
    /\ UNCHANGED <<userId, serverUrl, logs, mounted, nconn, stopWaiters,
                   received, alertMsg, cancelled>>

\* Automatic reconnect succeeded.
TransportReconnected(c) ==
    /\ hub[c] = "Reconnecting"
    /\ hub' = [hub EXCEPT ![c] = "Connected"]
    /\ Commit(OnReconnected(View))
    /\ UNCHANGED <<userId, serverUrl, logs, mounted, nconn, stopWaiters,
                   received, alertMsg, cancelled>>

\* The connection closed without stop(): the server closed it, or automatic
\* reconnect gave up.
TransportClosed(c) ==
    /\ hub[c] \in {"Connected", "Reconnecting"}
    /\ hub' = [hub EXCEPT ![c] = "Disconnected"]
    /\ Commit(OnClose(View))
    /\ UNCHANGED <<userId, serverUrl, logs, mounted, nconn, stopWaiters,
                   received, alertMsg, cancelled>>

\* stop() settles: the connection is closed, its onclose handlers fire (the
\* transport fires them whenever a started connection closes), and every
\* disconnectFromHub awaiting the stop() resumes, in its try block when
\* stop() resolved (ok) and in its catch block when it rejected.
StopSettles(c, ok) ==
    /\ hub[c] = "Disconnecting"
    /\ hub' = [hub EXCEPT ![c] = "Disconnected"]
    /\ stopWaiters' = stopWaiters \ {c}
    /\ Commit(IF c \in stopWaiters
              THEN DisconnectSettled(OnClose(View), ok)
              ELSE OnClose(View))
    /\ UNCHANGED <<userId, serverUrl, logs, mounted, nconn, received,
                   alertMsg, cancelled>>

\* stop() was called on a connection that had already closed: it resolves
\* without closing anything or firing onclose, and the disconnectFromHub
\* awaiting it resumes in its try block and runs the finally block. The
\* resumption is a microtask: it follows whatever else the caller's task
\* does, so only a direct caller can put a step between the call and this
\* one (a click on the rendered Disconnect button never finds a closed
\* connection in the handle).
StopResolvesClosed(c) ==
    /\ c \in stopWaiters
    /\ hub[c] = "Disconnected"
    /\ stopWaiters' = stopWaiters \ {c}
    /\ Commit(DisconnectSettled(View, TRUE))
    /\ UNCHANGED <<userId, serverUrl, logs, mounted, hub, nconn, received,
                   alertMsg, cancelled>>

\* newConnection.on("ReceiveMachineUpdate", ...) invoked with `response`
\* while the clock reads t; at most `limit` deliveries in a behaviour. The
\* handler is registered when the connection is built, before start(), is
\* never removed, and tests nothing but the payload: it runs whenever the
\* transport invokes it on a built connection.
ReceiveMachineUpdate(c, response, t, limit) ==
    /\ hub[c] # "Unbuilt"
    /\ received < limit
    /\ received' = received + 1
    /\ console' = "ReceivedUpdate"
    /\ logs' = IF HasEnvelope(response)
               THEN PrependLog(MakeLog(response, t, received + 1), logs)
               ELSE logs
    /\ UNCHANGED <<connection, isConnected, userId, serverUrl,
                   connectionStatus, connectionRef, mounted, hub, nconn,
                   stopWaiters, alertMsg, cancelled>>

\* The server numbers its updates: the next one carries id received + 1.
NextPayload ==
    [present |-> TRUE, hasData |-> TRUE,
     data |-> [id |-> received + 1, status |-> Online, timestamp |-> 0]]

\* ---- specifications -----------------------------------------------------
TransportNext ==
    \/ \E c \in ConnIds : StartResolves(c)
    \/ \E c \in ConnIds : StartRejects(c)
    \/ \E c \in ConnIds : TransportReconnecting(c)
    \/ \E c \in ConnIds : TransportReconnected(c)
    \/ \E c \in ConnIds : TransportClosed(c)
    \/ \E c \in ConnIds, ok \in BOOLEAN : StopSettles(c, ok)
    \/ \E c \in ConnIds, response \in Payloads, t \in Times :
          ReceiveMachineUpdate(c, response, t, MaxEvents)

\* The page as the user drives it: every call goes through a rendered
\* control.
Next ==
    \/ \E v \in UserIds : SetUserId(v)
    \/ \E v \in ServerUrls : SetServerUrl(v)
    \/ ConnectClick
    \/ DisconnectClick
    \/ ClearClick
    \/ Unmount
    \/ TransportNext

Spec == Init /\ [][Next]_vars

\* The component's functions as a connection manager: connect(),
\* disconnect() and clear() may be called in any state.
NextAPI ==
    \/ \E v \in UserIds : SetUserId(v)
    \/ \E v \in ServerUrls : SetServerUrl(v)
    \/ connect
    \/ disconnect
    \/ clear
    \/ Unmount
    \/ TransportNext
    \/ \E c \in ConnIds : StopResolvesClosed(c)

SpecAPI == Init /\ [][NextAPI]_vars

\* One session that receives a long run of numbered updates.
NextLog ==
    \/ SetUserId(<<"u">>)
    \/ ConnectClick
    \/ StartResolves(1)
    \/ ReceiveMachineUpdate(1, NextPayload, 1, MaxEventsLog)
    \/ ClearClick

SpecLog == Init /\ [][NextLog]_vars

\* Sessions of numbered updates across connects, reconnects, closes and
\* disconnects.
NextSession ==
    \/ SetUserId(<<"u">>)
    \/ ConnectClick
    \/ DisconnectClick
    \/ ClearClick
    \/ \E c \in ConnIds : StartResolves(c)
    \/ \E c \in ConnIds : StartRejects(c)
    \/ \E c \in ConnIds : TransportReconnecting(c)
    \/ \E c \in ConnIds : TransportReconnected(c)
    \/ \E c \in ConnIds : TransportClosed(c)
    \/ \E c \in ConnIds, ok \in BOOLEAN : StopSettles(c, ok)
    \/ \E c \in ConnIds : ReceiveMachineUpdate(c, NextPayload, 1, MaxEventsLog)

SpecSession == Init /\ [][NextSession]_vars

\* Status strings delivered in SpecStatus: every case label and two other
\* words, in lower case, in upper case and capitalised, the server's mixed
\* spellings, and the empty string.
ToUpperChar(ch) ==
    IF \E j \in 1..26 : LowerLetters[j] = ch
    THEN UpperLetters[CHOOSE j \in 1..26 : LowerLetters[j] = ch]
    ELSE ch

ToUpperCase(str) == [k \in 1..Len(str) |-> ToUpperChar(str[k])]

Capitalize(str) ==
    [k \in 1..Len(str) |-> IF k = 1 THEN ToUpperChar(str[k]) ELSE str[k]]

StatusWords == {W_completed, W_success, W_online, W_running, W_active, W_error, W_failed, W_offline, W_emergency, W_warning, W_idle, W_processing, W_inproduction, W_machinealarm, W_other}

Statuses ==
    UNION {{w, ToUpperCase(w), Capitalize(w)} : w \in StatusWords}
    \cup {InProduction, MachineAlarm, <<>>}

StatusPayload(status) ==
    [present |-> TRUE, hasData |-> TRUE,
     data |-> [id |-> received + 1, status |-> status, timestamp |-> 0]]

\* One session that receives updates of every status and renders them.
NextStatus ==
    \/ SetUserId(<<"u">>)
    \/ ConnectClick
    \/ StartResolves(1)
    \/ \E status \in Statuses :
          ReceiveMachineUpdate(1, StatusPayload(status), 1, MaxEventsStatus)
    \/ ClearClick

SpecStatus == Init /\ [][NextStatus]_vars

\* An automatic reconnect of c ends: it succeeds or the connection closes.
ReconnectEnds(c) ==
    /\ hub[c] = "Reconnecting"
    /\ (TransportReconnected(c) \/ TransportClosed(c))

\* The connection lifecycle alone: the identity, the two connection buttons,
\* teardown, and the transport's promises and lifecycle callbacks.
NextLifecycle ==
    \/ \E v \in UserIds : SetUserId(v)
    \/ ConnectClick
    \/ DisconnectClick
    \/ Unmount
    \/ \E c \in ConnIds : StartResolves(c)
    \/ \E c \in ConnIds : StartRejects(c)
    \/ \E c \in ConnIds : TransportReconnecting(c)
    \/ \E c \in ConnIds : TransportReconnected(c)
    \/ \E c \in ConnIds : TransportClosed(c)
    \/ \E c \in ConnIds, ok \in BOOLEAN : StopSettles(c, ok)

\* The lifecycle under a transport that settles every promise it hands out
\* and ends every automatic reconnect it begins: a pending start()
\* eventually resolves or rejects, a reconnect eventually succeeds or gives
\* up, and a pending stop() eventually settles.
SpecFair ==
    /\ Init /\ [][NextLifecycle]_vars
    /\ WF_vars(\E c \in ConnIds : StartResolves(c) \/ StartRejects(c))
    /\ WF_vars(\E c \in ConnIds : ReconnectEnds(c))
    /\ WF_vars(\E c \in ConnIds, ok \in BOOLEAN : StopSettles(c, ok))

\* ---- properties ----------------------------------------------------------
\* The shape of the state.
TypeOK ==
    /\ connection \in ConnIds \cup {NoConn}
    /\ connectionRef \in ConnIds \cup {NoConn}
    /\ isConnected \in BOOLEAN
    /\ mounted \in BOOLEAN
    /\ userId \in UserIds
    /\ serverUrl \in ServerUrls
    /\ connectionStatus \in {"disconnected", "connecting", "connected"}
    /\ hub \in [ConnIds -> HubStates]
    /\ nconn \in 0..MaxConns
    /\ \A c \in ConnIds : hub[c] = "Unbuilt" <=> c > nconn
    /\ stopWaiters \subseteq ConnIds
    /\ cancelled \subseteq ConnIds
    /\ received \in Nat

Live == {c \in ConnIds : hub[c] \in LiveStates}

\* C1: at most one transport connection is started and not closed at any
\* time; the page never has a second connection built while one is live.
C1_AtMostOneLive == Cardinality(Live) <= 1

\* C1 witness: a second connection has been built and is the only live one,
\* the first having closed.
C1_Witness ==
    /\ nconn = 2
    /\ hub[1] = "Disconnected"
    /\ hub[2] \in {"Connecting", "Connected"}
    /\ connectionStatus \in {"connecting", "connected"}

\* C2 (as claimed): when disconnect() ran while the start() of connection c
\* was pending, the step that settles that start() leaves ConnectionState
\* disconnected and c closed.
C2_CancelledAttemptEndsDisconnected ==
    [][\A c \in cancelled :
          (hub[c] = "Connecting" /\ hub'[c] # "Connecting")
          => (connectionStatus' = "disconnected" /\ hub'[c] = "Disconnected")
      ]_vars

\* C3 (as claimed): after teardown, once no start() is pending, no
\* connection is connected or reconnecting (each was stopped or closed).
C3_TeardownClosesAll ==
    (~mounted /\ Starting = {})
    => \A c \in ConnIds : hub[c] \notin {"Connected", "Reconnecting"}

\* C4: ConnectionState is connected only while some connection that started
\* successfully has not closed (it is connected, or its stop() is still in
\* progress).
C4_ConnectedOnlyIfLive ==
    connectionStatus = "connected"
    => \E c \in ConnIds : hub[c] \in {"Connected", "Disconnecting"}

\* C4 witness: connected again after an automatic reconnect.
C4_Witness ==
    /\ connectionStatus = "connected"
    /\ console = "Reconnected"
    /\ \E c \in ConnIds : hub[c] = "Connected"

\* C5: the log buffer never holds more than 50 records.
C5_BufferAtMost50 == Len(logs) <= 50

\* C5 witness: the buffer is full after more than 50 updates arrived.
C5_Witness == Len(logs) = 50 /\ received > 50

\* C6: the buffer is ordered newest first: every element arrived strictly
\* after the element that follows it.
C6_NewestFirst ==
    \A i \in 1..(Len(logs) - 1) : logs[i].arrival > logs[i + 1].arrival

\* C6 witness: a full buffer that has already evicted records.
C6_Witness == Len(logs) = 50 /\ received = 52 /\ logs[1].arrival = 52

\* C7: a well-formed update applied to buffer B yields the new record
\* followed by the first min(|B|, 49) elements of B in their order.
C7_PrependTruncate ==
    [][received' = received + 1
       => /\ Len(logs') = 1 + (IF Len(logs) < 49 THEN Len(logs) ELSE 49)
          /\ logs'[1].id = received + 1
          /\ logs'[1].arrival = received + 1
          /\ \A i \in 1..(Len(logs') - 1) : logs'[i + 1] = logs[i]
      ]_vars

\* C7 witness: after updates 1..51 the buffer holds 50 records, 51 first,
\* 2 last, and 1 is gone.
C7_Witness ==
    /\ received = 51
    /\ Len(logs) = 50
    /\ logs[1].id = 51
    /\ logs[50].id = 2
    /\ \A i \in 1..Len(logs) : logs[i].id # 1

\* C8: a click on Connect while the identity is empty or all white space
\* changes neither ConnectionState nor the handle, and builds and starts no
\* connection.
C8_BlankConnectNoEffect ==
    [][(ConnectClick /\ \A i \in 1..Len(userId) : userId[i] = " ")
       => UNCHANGED <<connectionStatus, connectionRef, connection,
                      isConnected, hub, nconn>>
      ]_vars

\* C8 witness: the validation alert was shown for a white-space identity and
\* nothing was built.
C8_Witness ==
    /\ alertMsg = "InvalidUserId"
    /\ userId = <<" ">>
    /\ nconn = 0
    /\ connectionStatus = "disconnected"
    /\ connectionRef = NoConn

\* C9: the step in which a disconnectFromHub call finishes (its awaited
\* stop() settled, resolved or rejected) leaves ConnectionState disconnected
\* and the handle null.
C9_DisconnectAlwaysCleansUp ==
    [][\A c \in ConnIds :
          (c \in stopWaiters /\ c \notin stopWaiters')
          => /\ connectionStatus' = "disconnected"
             /\ isConnected' = FALSE
             /\ connectionRef' = NoConn
             /\ connection' = NoConn
      ]_vars

\* C9 witness: stop() raised an error and the manager is disconnected with
\* its handle released.
C9_Witness ==
    /\ console = "ErrorDisconnecting"
    /\ connectionStatus = "disconnected"
    /\ connectionRef = NoConn
    /\ \E c \in ConnIds : hub[c] = "Disconnected"

\* C10 (as claimed): disconnect() called while ConnectionState is
\* disconnected changes no manager state and makes no transport call (a
\* call of stop() is what puts the caller into stopWaiters).
C10_DisconnectWhenDisconnectedIsNoOp ==
    [][(disconnect /\ connectionStatus = "disconnected")
       => UNCHANGED <<connectionStatus, connectionRef, connection,
                      isConnected, logs, hub, stopWaiters>>
      ]_vars

\* C11: the step in which start() fails leaves ConnectionState disconnected
\* and builds no connection; a closed connection is never started again; and
\* a connection is built only by a click on Connect.
C11_HandshakeFailureNoRetry ==
    [][/\ \A c \in ConnIds :
             (hub[c] = "Connecting" /\ hub'[c] = "Disconnected")
             => (connectionStatus' = "disconnected" /\ nconn' = nconn)
       /\ \A c \in ConnIds :
             hub[c] = "Disconnected" => hub'[c] = "Disconnected"
       /\ nconn' # nconn => ConnectClick
      ]_vars

\* C11 witness: the first handshake failed, the state is disconnected and
\* no second connection exists.
C11_Witness ==
    /\ console = "ErrorConnecting"
    /\ alertMsg = "ConnectFailed"
    /\ connectionStatus = "disconnected"
    /\ hub[1] = "Disconnected"
    /\ nconn = 1

\* Some connection's transport state moves from one of `from` to `to` in
\* this step.
Moved(from, to) == \E c \in ConnIds : hub[c] \in from /\ hub'[c] = to

\* ConnectionState changes from a to b in this step.
Changes(a, b) == connectionStatus = a /\ connectionStatus' = b

\* The six transitions of the specified state machine, each with its event.
SixTransitions ==
    \/ Changes("disconnected", "connecting") /\ nconn' = nconn + 1
    \/ Changes("connecting", "connected")
          /\ Moved({"Connecting", "Reconnecting"}, "Connected")
    \/ Changes("connecting", "disconnected")
          /\ Moved({"Connecting"}, "Disconnected")
    \/ Changes("connected", "disconnected")
          /\ Moved({"Connected", "Disconnecting"}, "Disconnected")
    \/ Changes("connected", "connecting")
          /\ Moved({"Connected"}, "Reconnecting")

\* C12 (as claimed): ConnectionState starts disconnected and every change of
\* it is one of the six specified transitions.
C12_OnlySixTransitions ==
    /\ connectionStatus = "disconnected"
    /\ [][connectionStatus' # connectionStatus => SixTransitions]_vars

\* C12 (amended): ConnectionState starts disconnected and every change of it
\* is one of the six specified transitions or Connecting -> Disconnected by
\* a close or a finished disconnect() while the transport was reconnecting.
C12_TransitionsWithReconnectClose ==
    /\ connectionStatus = "disconnected"
    /\ [][connectionStatus' # connectionStatus
          => \/ SixTransitions
             \/ Changes("connecting", "disconnected")
                   /\ Moved({"Reconnecting", "Disconnecting"}, "Disconnected")
         ]_vars

\* C12 witness: disconnect() was called while the transport was
\* reconnecting; ConnectionState is connecting and the stop() is pending.
C12_Witness ==
    /\ connectionStatus = "connecting"
    /\ \E c \in stopWaiters : hub[c] = "Disconnecting"

\* C13: the step in which the transport reports reconnecting leaves
\* ConnectionState connecting, the step in which it reports reconnected
\* leaves it connected, the step in which a connection closes unexpectedly
\* leaves it disconnected; none of these steps changes the buffer.
C13_LifecycleCallbacks ==
    [][\A c \in ConnIds :
          /\ (hub[c] = "Connected" /\ hub'[c] = "Reconnecting")
             => (connectionStatus' = "connecting" /\ logs' = logs)
          /\ (hub[c] = "Reconnecting" /\ hub'[c] = "Connected")
             => (connectionStatus' = "connected" /\ logs' = logs)
          /\ (hub[c] \in {"Connected", "Reconnecting"}
                 /\ hub'[c] = "Disconnected")
             => (connectionStatus' = "disconnected" /\ logs' = logs)
      ]_vars

\* C13 witness: reconnected with the records received before the drop still
\* in the buffer.
C13_Witness ==
    /\ console = "Reconnected"
    /\ connectionStatus = "connected"
    /\ Len(logs) = 2
    /\ received = 2

\* C14 (as claimed): the endpoint URL and the identity change only in steps
\* taken while ConnectionState is disconnected.
C14_EditOnlyWhileDisconnected ==
    [][(userId' # userId \/ serverUrl' # serverUrl)
       => connectionStatus = "disconnected"
      ]_vars

\* C15: a delivery (a step that advances the delivery count) whose payload is
\* null/undefined or has no data field leaves the buffer exactly as it was.
C15_MalformedPayloadDropped ==
    [][received' # received =>
          \A response \in {p \in Payloads : ~p.present \/ ~p.hasData} :
              (\E c \in ConnIds, t \in Times :
                  ReceiveMachineUpdate(c, response, t, MaxEvents))
              => logs' = logs
      ]_vars

\* C15 witness: two deliveries were handled and only the first is in the
\* buffer, at its head: the second was dropped.
C15_Witness ==
    /\ received = 2
    /\ Len(logs) = 1
    /\ logs[1].arrival = 1

\* C16: a click on Clear Logs leaves the buffer empty, whatever it held and
\* whatever ConnectionState is, and changes neither ConnectionState nor the
\* connection handle.
C16_ClearEmptiesBuffer ==
    [][ClearClick
       => /\ Len(logs') = 0
          /\ UNCHANGED <<connectionStatus, connectionRef, connection,
                         isConnected, hub>>
      ]_vars

\* C16 witness: a full buffer was cleared while the transport was
\* reconnecting (every delivery of this specification inserts a record).
C16_Witness ==
    /\ received = 50
    /\ logs = <<>>
    /\ connectionStatus = "connecting"
    /\ connectionRef # NoConn

\* Two strings are equal up to the case of their letters.
SameIgnoringCase(a, b) ==
    /\ Len(a) = Len(b)
    /\ \A k \in 1..Len(a) :
          \/ a[k] = b[k]
          \/ \E j \in 1..26 : {a[k], b[k]} = {UpperLetters[j], LowerLetters[j]}

IsOneOf(status, words) == \E w \in words : SameIgnoringCase(status, w)

SuccessWords == {W_completed, W_success, W_online, W_running, W_active}
FailureWords == {W_error, W_failed, W_offline, W_emergency}
ProcessingWords == {W_processing, W_warning, W_inproduction}

\* C17: for every rendered record, whatever the case of its status: the icon
\* is the success icon for the success words, the failure icon for the
\* failure words and the warning icon for everything else; the colour class
\* is green for the success words, red for the failure words, blue for
\* processing / warning / inproduction, yellow for idle and gray for
\* everything else.
C17_StatusClassification ==
    \A i \in 1..Len(logs) :
        LET status == logs[i].status IN
        /\ getStatusIcon(status) =
              IF IsOneOf(status, SuccessWords)
              THEN "CheckCircle text-green-500"
              ELSE IF IsOneOf(status, FailureWords)
              THEN "XCircle text-red-500"
              ELSE "AlertCircle text-yellow-500"
        /\ getStatusColor(status) =
              IF IsOneOf(status, SuccessWords)
              THEN "bg-green-100 text-green-800"
              ELSE IF IsOneOf(status, FailureWords)
              THEN "bg-red-100 text-red-800"
              ELSE IF IsOneOf(status, ProcessingWords)
              THEN "bg-blue-100 text-blue-800"
              ELSE IF IsOneOf(status, {W_idle})
              THEN "bg-yellow-100 text-yellow-800"
              ELSE "bg-gray-100 text-gray-800"

\* C17 witness: the server's mixed-case "Emergency" was received and renders
\* the failure icon and the failure colour class.
C17_Witness ==
    /\ Len(logs) = 1
    /\ logs[1].status = Emergency
    /\ getStatusIcon(logs[1].status) = "XCircle text-red-500"
    /\ getStatusColor(logs[1].status) = "bg-red-100 text-red-800"

\* C18: the buffer changes only in a step that clears it or that handles a
\* "ReceiveMachineUpdate" delivery carrying a data envelope; connecting,
\* disconnecting, edits, teardown and transport callbacks leave it as it is.
C18_BufferChangesOnlyOnUpdateOrClear ==
    [][logs' # logs
       => \/ ClearClick
          \/ \E c \in ConnIds, response \in Payloads, t \in Times :
                /\ response.present /\ response.hasData
                /\ ReceiveMachineUpdate(c, response, t, MaxEvents)
      ]_vars

\* C18 witness: the second connection has just connected, after the first
\* one closed, and the two records delivered before that are still in the
\* buffer.
C18_Witness ==
    /\ hub[1] = "Disconnected"
    /\ hub[2] = "Connected"
    /\ console = "Connected"
    /\ connectionRef = 2
    /\ Len(logs) = 2

\* C19: every state in which ConnectionState is connecting is followed by a
\* state in which it is connected or disconnected; and whenever the mounted
\* page is disconnected with a non-blank identity (and the model's bound on
\* connections is not exhausted), a click on Connect is enabled.
C19_ConnectingEndsAndConnectStaysPossible ==
    /\ (connectionStatus = "connecting")
          ~> (connectionStatus \in {"connected", "disconnected"})
    /\ []((/\ mounted
           /\ connectionStatus = "disconnected"
           /\ \E i \in 1..Len(userId) : userId[i] # " "
           /\ nconn < MaxConns)
          => ENABLED ConnectClick)

\* C19 witness: a connect attempt has ended in failure, the state is
\* disconnected again and Connect can be clicked once more.
C19_Witness ==
    /\ console = "ErrorConnecting"
    /\ connectionStatus = "disconnected"
    /\ mounted
    /\ nconn = 1
    /\ userId = <<"u">>
    /\ ENABLED ConnectClick

\* Connections whose start() has succeeded and that have not closed.
Started == {c \in ConnIds : hub[c] \in {"Connected", "Reconnecting",
                                           "Disconnecting"}}

\* C20: before teardown, every connection whose start() has succeeded and
\* that has not closed is the one connectionRef refers to; and a
\* disconnectFromHub that resumes after its stop() settled clears the handle
\* only of the connection it stopped, while no other connection is started
\* or starting.
C20_LiveConnectionIsTheHandle ==
    /\ mounted => \A c \in Started : connectionRef = c
    /\ \A c \in stopWaiters :
           /\ connectionRef = c
           /\ \A d \in ConnIds \ {c} : hub[d] \in {"Unbuilt", "Disconnected"}

\* The second connection of the page, started after the first one closed,
\* is the handle while a Disconnect click awaits its stop().
C20_Witness ==
    /\ mounted
    /\ nconn = 2
    /\ hub[1] = "Disconnected"
    /\ hub[2] = "Disconnecting"
    /\ 2 \in stopWaiters
    /\ connectionRef = 2

====
